---- MODULE Spec2Model ----
(***************************************************************************)
(* Query-result cache (searx/search_database.py) and the background        *)
(* refresh thread (searx/webapp.py: update_results, wait_updating, run).   *)
(*                                                                         *)
(* The redis server is the shared state: string keys holding pickled       *)
(* entries, the counter SEARCH_HISTORY_INDEX and the sorted set            *)
(* SEARCH_HISTORY_KEYS.  Every redis command is one atomic step; a python  *)
(* function that issues several commands is several steps, so that request *)
(* threads and the refresh thread interleave between commands.             *)
(***************************************************************************)
EXTENDS Integers, Sequences, FiniteSets, TLC

(***************************************************************************)
(* Bounds of the model.                                                    *)
(***************************************************************************)
NumClients == 2       \* request threads
MaxSaves == 2         \* save() calls started (Spec, SpecRefresh, SpecSweep)

(***************************************************************************)
(* Values.                                                                 *)
(***************************************************************************)
None == "None"

\* SearchQuery(query, engines, categories, language, safesearch, pageno, time_range)
SearchQuery(query, engines, categories, language, safesearch, pageno, time_range) ==
    [query |-> query, engines |-> engines, categories |-> categories,
     language |-> language, safesearch |-> safesearch, pageno |-> pageno,
     time_range |-> time_range]

IdentityFields == {"query", "engines", "categories", "language", "safesearch",
                   "pageno", "time_range"}

OutputFields == {"results", "paging", "results_number", "answers", "corrections",
                 "infoboxes", "suggestions", "unresponsive_engines"}

\* The result container of one search, numbered n: eight output values.
Container(n) ==
    [results |-> <<n>>, paging |-> (n % 2 = 1), results_number |-> 10 * n,
     answers |-> {n}, corrections |-> {n + 1}, infoboxes |-> <<n, n>>,
     suggestions |-> {n + 2}, unresponsive_engines |-> {n + 3}]

\* search.create_search_data(query, result_container): the entry object
create_search_data(q, c) ==
    [query |-> q.query, engines |-> q.engines, categories |-> q.categories,
     language |-> q.language, safesearch |-> q.safesearch, pageno |-> q.pageno,
     time_range |-> q.time_range,
     results |-> c.results, paging |-> c.paging,
     results_number |-> c.results_number, answers |-> c.answers,
     corrections |-> c.corrections, infoboxes |-> c.infoboxes,
     suggestions |-> c.suggestions,
     unresponsive_engines |-> c.unresponsive_engines]

Identity(d) == [f \in IdentityFields |-> d[f]]
Outputs(d) == [f \in OutputFields |-> d[f]]

(***************************************************************************)
(* make_key: normalises time_range IN the object it is given, then formats *)
(* the seven identity fields, joined by ':'.                               *)
(***************************************************************************)
\* Normalised without lines 9-10: q is left as it is, and None is formatted
\* as python formats it.
NotNormalised(q) == q

\* lines 9-10: the object after the call
Normalised(q) ==
    IF q.time_range = None THEN [q EXCEPT !.time_range = ""] ELSE q

\* lines 12-20: the returned key
make_key(q) ==
    LET n == Normalised(q) IN
    "SEARCH_HISTORY:" \o n.query \o ":" \o n.engines \o ":" \o n.categories[1]
        \o ":" \o n.language \o ":" \o ToString(n.safesearch)
        \o ":" \o ToString(n.pageno) \o ":" \o n.time_range

(***************************************************************************)
(* pickle, protocol 4: the bytes are the protocol number followed by the   *)
(* attributes of the object; loads rebuilds the object from them and       *)
(* raises on anything else.                                                *)
(***************************************************************************)
PickleProtocol == 4

pickle_dumps(d) ==
    <<PickleProtocol, d.query, d.engines, d.categories, d.language, d.safesearch,
      d.pageno, d.time_range, d.results, d.paging, d.results_number, d.answers,
      d.corrections, d.infoboxes, d.suggestions, d.unresponsive_engines>>

Loadable(b) == Len(b) = 16 /\ b[1] = PickleProtocol

pickle_loads(b) ==
    [query |-> b[2], engines |-> b[3], categories |-> b[4], language |-> b[5],
     safesearch |-> b[6], pageno |-> b[7], time_range |-> b[8],
     results |-> b[9], paging |-> b[10], results_number |-> b[11],
     answers |-> b[12], corrections |-> b[13], infoboxes |-> b[14],
     suggestions |-> b[15], unresponsive_engines |-> b[16]]

(***************************************************************************)
(* The redis server.                                                       *)
(*   kv      : string keys -> bytes (GET/SET); a key outside the domain    *)
(*             does not exist and GET answers None                         *)
(*   counter : the integer at SEARCH_HISTORY_INDEX (INCR)                  *)
(*   zset    : SEARCH_HISTORY_KEYS, the members with their scores, kept in *)
(*             rank order (ZADD/ZRANGE)                                    *)
(***************************************************************************)
VARIABLES kv, counter, zset

NoBytes == <<>>

Get(store, key) == IF key \in DOMAIN store THEN store[key] ELSE NoBytes

Set(store, key, bytes) ==
    [k \in DOMAIN store \cup {key} |-> IF k = key THEN bytes ELSE store[k]]

Members(z) == {z[n].member : n \in 1..Len(z)}

ScoreOf(z, m) == z[CHOOSE n \in 1..Len(z) : z[n].member = m].score

\* ZADD key {member: score}: a member is held once; adding it again moves it
\* to the rank of its new score.
ZAdd(z, m, s) ==
    LET rest == SelectSeq(z, LAMBDA e : e.member # m)
        below == SelectSeq(rest, LAMBDA e : e.score <= s)
        above == SelectSeq(rest, LAMBDA e : e.score > s)
    IN below \o <<[member |-> m, score |-> s]>> \o above

Min(a, b) == IF a < b THEN a ELSE b

\* ZRANGE key start stop: the members of ranks start..stop, both ends included
\* (ranks count from 0).
ZRange(z, start, stop) ==
    [n \in 1..(IF start >= Len(z) THEN 0 ELSE Min(stop, Len(z) - 1) - start + 1)
        |-> z[start + n].member]

(***************************************************************************)
(* The cache functions, as functions of the redis state they read.         *)
(***************************************************************************)
\* What a call hands back: a value, or the exception it raises.
NoEntry == create_search_data(
               SearchQuery("", "", <<"">>, "", 0, 0, ""), Container(0))

Returned(v) == [kind |-> "return", value |-> v, exc |-> ""]
ReturnedNone == [kind |-> "None", value |-> NoEntry, exc |-> ""]
Raised(exc) == [kind |-> "raise", value |-> NoEntry, exc |-> exc]
NoCall == [kind |-> "no call", value |-> NoEntry, exc |-> ""]

\* read(q), lines 27-33
read(store, q) ==
    LET key == make_key(q)
        response == Get(store, key)
    IN IF response = NoBytes THEN ReturnedNone
       ELSE IF Loadable(response) THEN Returned(pickle_loads(response))
       ELSE Raised("UnpicklingError")

\* CopyOutputs with line 83 missing: suggestions stays the one that was read.
CopyOutputsButOne(current, d) ==
    [current EXCEPT !.results = d.results, !.paging = d.paging,
                    !.results_number = d.results_number, !.answers = d.answers,
                    !.corrections = d.corrections, !.infoboxes = d.infoboxes,
                    !.unresponsive_engines = d.unresponsive_engines]

\* update(d), lines 77-84: the eight output attributes of d set on current
CopyOutputs(current, d) ==
    [current EXCEPT !.results = d.results, !.paging = d.paging,
                    !.results_number = d.results_number, !.answers = d.answers,
                    !.corrections = d.corrections, !.infoboxes = d.infoboxes,
                    !.suggestions = d.suggestions,
                    !.unresponsive_engines = d.unresponsive_engines]

(***************************************************************************)
(* Request threads: each calls read, save and update of the cache.         *)
(*   cpc      : where the thread is ("idle": between calls)                *)
(*   carg     : the object it passed to the call, as make_key left it      *)
(*   ckey, chistory, ccurrent : the locals key, history, current           *)
(*   ret      : the call that returned last: its name, the object passed   *)
(*              (as make_key left it) and what the call handed back (for   *)
(*              get_twenty_queries: the offset passed, the list returned)  *)
(***************************************************************************)
VARIABLES cpc, carg, ckey, chistory, ccurrent, ret

Call(op, arg, back) ==
    [op |-> op, arg |-> arg, back |-> back, start |-> 0, batch |-> <<>>]

Clients == 1..NumClients

(***************************************************************************)
(* History of the run, kept for the statements below (no code reads it).   *)
(*   last    : for each key, the call whose SET wrote the value it holds   *)
(*   cseen   : for a thread inside update, what `last` said of its key     *)
(*             when it read current                                        *)
(*   nsaves  : save calls started                                          *)
(***************************************************************************)
VARIABLES last, cseen, nsaves

NotSeen == [op |-> "none", e |-> NoEntry, e2 |-> NoEntry, seq |-> FALSE]

BySave(d) == [op |-> "save", e |-> d, e2 |-> NoEntry, seq |-> FALSE]

\* An update whose read saw the value of a completed save(e), untouched until
\* its own SET, is "save(e) followed by update(e2)".
ByUpdate(seen, now, d) ==
    IF seen.op = "save" /\ seen = now
    THEN [op |-> "update", e |-> seen.e, e2 |-> d, seq |-> TRUE]
    ELSE [op |-> "update", e |-> NoEntry, e2 |-> NoEntry, seq |-> FALSE]

Provenance(l, key) == IF key \in DOMAIN l THEN l[key] ELSE NotSeen

(***************************************************************************)
(* The refresh thread (update_results) and the shutdown event.             *)
(*   running  : the threading.Event `running` (set = shut down)            *)
(*   spc      : where the thread is                                        *)
(*   x        : the cursor                                                 *)
(*   keys, queries, i : the ZRANGE answer, the batch, the for-loop's place *)
(*   sdata, scurrent  : searchData, and update's current                   *)
(*   sret     : the exception that ended the thread, if one did, and the   *)
(*              place it came out of                                       *)
(***************************************************************************)
VARIABLES running, spc, x, keys, queries, i, sdata, scurrent, sret

(***************************************************************************)
(* History of the refresh thread (no code reads it).                       *)
(*   sseen      : as cseen, for the thread's update                        *)
(*   begun      : searches begun since `running` was set                   *)
(*   setAt      : where the thread was when `running` was set              *)
(*   sweepKeys  : the members of the index when the sweep read its first   *)
(*                batch (cursor 0)                                         *)
(*   refreshed  : the keys update has written in this sweep, in order      *)
(*   sweepEnded : the sweep has reset the cursor to 0 and no new one began *)
(***************************************************************************)
VARIABLES sseen, begun, setAt, sweepKeys, refreshed, sweepEnded

(***************************************************************************)
(* A thread that calls make_key on a SearchQuery object it holds.          *)
(*   qobj   : the object (python passes it by reference: what make_key     *)
(*            sets on q is set on the caller's object)                     *)
(*   qkey   : the key make_key returned ("": not called yet)               *)
(*   qgiven : the attributes the object had before the call (no code       *)
(*            reads it)                                                    *)
(***************************************************************************)
VARIABLES qobj, qkey, qgiven

NotRaised == [exc |-> "", at |-> ""]
RaisedAt(exc, place) == [exc |-> exc, at |-> place]

storeVars == <<kv, counter, zset>>
clientVars == <<cpc, carg, ckey, chistory, ccurrent, ret, cseen>>
schedVars == <<spc, x, keys, queries, i, sdata, scurrent, sret, sseen>>
sweepVars == <<sweepKeys, refreshed, sweepEnded>>
cancelVars == <<begun, setAt>>
keyVars == <<qobj, qkey, qgiven>>
vars == <<qobj, qkey, qgiven,
          kv, counter, zset, cpc, carg, ckey, chistory, ccurrent, ret, cseen,
          last, nsaves, running, spc, x, keys, queries, i, sdata, scurrent,
          sret, sseen, begun, setAt, sweepKeys, refreshed, sweepEnded>>

\* The threads at the start of the process: run(), line 859, starts the
\* refresh thread; no request is being served.
InitThreads ==
    /\ cpc = [p \in Clients |-> "idle"]
    /\ carg = [p \in Clients |-> NoEntry]
    /\ ckey = [p \in Clients |-> ""]
    /\ chistory = [p \in Clients |-> 0]
    /\ ccurrent = [p \in Clients |-> NoEntry]
    /\ ret = Call("", NoEntry, NoCall)
    /\ cseen = [p \in Clients |-> NotSeen]
    /\ nsaves = 0
    /\ running = FALSE
    /\ spc = "while"
    /\ x = 0
    /\ keys = <<>>
    /\ queries = <<>>
    /\ i = 0
    /\ sdata = NoEntry
    /\ scurrent = NoEntry
    /\ sret = NotRaised
    /\ sseen = NotSeen
    /\ begun = 0
    /\ setAt = ""
    /\ sweepKeys = {}
    /\ refreshed = <<>>
    /\ sweepEnded = FALSE

\* No thread holds an object to call make_key on.
NoQuery == SearchQuery("", "", <<"">>, "", 0, 0, "")

NoKeyCall ==
    /\ qobj = [p \in Clients |-> NoQuery]
    /\ qkey = [p \in Clients |-> ""]
    /\ qgiven = [p \in Clients |-> NoQuery]

\* A server nothing was ever saved on.
EmptyServer ==
    /\ kv = <<>>
    /\ counter = 0
    /\ zset = <<>>
    /\ last = <<>>

Init ==
    /\ EmptyServer
    /\ InitThreads
    /\ NoKeyCall

(***************************************************************************)
(* save(d), lines 36-41.                                                   *)
(***************************************************************************)
\* lines 37-38: the call; make_key has normalised d
SaveCall(p, d) ==
    /\ cpc[p] = "idle"
    /\ cpc' = [cpc EXCEPT ![p] = "save_incr"]
    /\ carg' = [carg EXCEPT ![p] = Normalised(d)]
    /\ ckey' = [ckey EXCEPT ![p] = make_key(d)]
    /\ nsaves' = nsaves + 1
    /\ UNCHANGED <<keyVars, storeVars, chistory, ccurrent, ret, cseen, last,
                   running, schedVars, cancelVars, sweepVars>>

\* SaveIncr with the number read and never written back: what line 39 would
\* do if it were a GET and an addition instead of one INCR.
SaveIncrNotAtomic(p) ==
    /\ cpc[p] = "save_incr"
    /\ chistory' = [chistory EXCEPT ![p] = counter + 1]
    /\ cpc' = [cpc EXCEPT ![p] = "save_zadd"]
    /\ UNCHANGED <<keyVars, kv, counter, zset, carg, ckey, ccurrent, ret, cseen, last,
                   nsaves, running, schedVars, cancelVars, sweepVars>>

\* line 39: history = conn.incr("SEARCH_HISTORY_INDEX")
SaveIncr(p) ==
    /\ cpc[p] = "save_incr"
    /\ counter' = counter + 1
    /\ chistory' = [chistory EXCEPT ![p] = counter + 1]
    /\ cpc' = [cpc EXCEPT ![p] = "save_zadd"]
    /\ UNCHANGED <<keyVars, kv, zset, carg, ckey, ccurrent, ret, cseen, last, nsaves,
                   running, schedVars, cancelVars, sweepVars>>

\* SaveZadd without the ZADD: save goes from the INCR to the SET.
SaveZaddSkipped(p) ==
    /\ cpc[p] = "save_zadd"
    /\ cpc' = [cpc EXCEPT ![p] = "save_set"]
    /\ UNCHANGED <<keyVars, storeVars, carg, ckey, chistory, ccurrent, ret, cseen,
                   last, nsaves, running, schedVars, cancelVars, sweepVars>>

\* SaveZadd as an append to a list: the key is added once more each time.
SaveZaddAppends(p) ==
    /\ cpc[p] = "save_zadd"
    /\ zset' = Append(zset, [member |-> ckey[p], score |-> chistory[p]])
    /\ cpc' = [cpc EXCEPT ![p] = "save_set"]
    /\ UNCHANGED <<keyVars, kv, counter, carg, ckey, chistory, ccurrent, ret,
                   cseen, last, nsaves, running, schedVars, cancelVars, sweepVars>>

\* line 40: conn.zadd("SEARCH_HISTORY_KEYS", {key: history})
SaveZadd(p) ==
    /\ cpc[p] = "save_zadd"
    /\ zset' = ZAdd(zset, ckey[p], chistory[p])
    /\ cpc' = [cpc EXCEPT ![p] = "save_set"]
    /\ UNCHANGED <<keyVars, kv, counter, carg, ckey, chistory, ccurrent, ret, cseen, last,
                   nsaves, running, schedVars, cancelVars, sweepVars>>

\* SaveSet pickling the identity of d without its outputs.
SaveSetLosesOutputs(p) ==
    /\ cpc[p] = "save_set"
    /\ kv' = Set(kv, ckey[p], pickle_dumps(CopyOutputs(carg[p], NoEntry)))
    /\ last' = Set(last, ckey[p], BySave(carg[p]))
    /\ cpc' = [cpc EXCEPT ![p] = "idle"]
    /\ ckey' = [ckey EXCEPT ![p] = ""]
    /\ chistory' = [chistory EXCEPT ![p] = 0]
    /\ carg' = [carg EXCEPT ![p] = NoEntry]
    /\ ret' = Call("save", carg[p], ReturnedNone)
    /\ UNCHANGED <<keyVars, counter, zset, ccurrent, cseen, nsaves, running,
                   schedVars, cancelVars, sweepVars>>

\* line 41: conn.set(key, pickle.dumps(d, protocol=4)); save returns
SaveSet(p) ==
    /\ cpc[p] = "save_set"
    /\ kv' = Set(kv, ckey[p], pickle_dumps(carg[p]))
    /\ last' = Set(last, ckey[p], BySave(carg[p]))
    /\ cpc' = [cpc EXCEPT ![p] = "idle"]
    /\ ckey' = [ckey EXCEPT ![p] = ""]
    /\ chistory' = [chistory EXCEPT ![p] = 0]
    /\ carg' = [carg EXCEPT ![p] = NoEntry]
    /\ ret' = Call("save", carg[p], ReturnedNone)
    /\ UNCHANGED <<keyVars, counter, zset, ccurrent, cseen, nsaves, running,
                   schedVars, cancelVars, sweepVars>>

(***************************************************************************)
(* read(q), lines 27-33: one GET.                                          *)
(***************************************************************************)
ReadCall(p, q) ==
    /\ cpc[p] = "idle"
    /\ ret' = Call("read", Normalised(q), read(kv, q))
    /\ UNCHANGED <<keyVars, storeVars, cpc, carg, ckey, chistory, ccurrent, cseen, last,
                   nsaves, running, schedVars, cancelVars, sweepVars>>

(***************************************************************************)
(* update(d), lines 73-85.                                                 *)
(***************************************************************************)
\* UpdateRead keeping d whole instead of setting its outputs on current.
UpdateReadReplaces(p, d) ==
    /\ cpc[p] = "idle"
    /\ read(kv, d).kind = "return"
    /\ carg' = [carg EXCEPT ![p] = Normalised(d)]
    /\ ckey' = [ckey EXCEPT ![p] = make_key(d)]
    /\ ccurrent' = [ccurrent EXCEPT ![p] = Normalised(d)]
    /\ cseen' = [cseen EXCEPT ![p] = Provenance(last, make_key(d))]
    /\ cpc' = [cpc EXCEPT ![p] = "update_set"]
    /\ UNCHANGED <<keyVars, storeVars, chistory, ret, last, nsaves, running, schedVars,
                   cancelVars, sweepVars>>

\* lines 74-84: read(d) found an entry; its output attributes are replaced
UpdateRead(p, d) ==
    /\ cpc[p] = "idle"
    /\ read(kv, d).kind = "return"
    /\ carg' = [carg EXCEPT ![p] = Normalised(d)]
    /\ ckey' = [ckey EXCEPT ![p] = make_key(d)]
    /\ ccurrent' = [ccurrent EXCEPT ![p] = CopyOutputs(read(kv, d).value, d)]
    /\ cseen' = [cseen EXCEPT ![p] = Provenance(last, make_key(d))]
    /\ cpc' = [cpc EXCEPT ![p] = "update_set"]
    /\ UNCHANGED <<keyVars, storeVars, chistory, ret, last, nsaves, running, schedVars,
                   cancelVars, sweepVars>>

\* UpdateMiss returning quietly when read found nothing.
UpdateMissSwallowed(p, d) ==
    /\ cpc[p] = "idle"
    /\ read(kv, d) = ReturnedNone
    /\ ret' = Call("update", Normalised(d), ReturnedNone)
    /\ UNCHANGED <<keyVars, storeVars, cpc, carg, ckey, chistory, ccurrent, cseen, last,
                   nsaves, running, schedVars, cancelVars, sweepVars>>

\* UpdateMiss as an upsert: d is written when nothing is stored under its key.
UpdateMissCreates(p, d) ==
    /\ cpc[p] = "idle"
    /\ read(kv, d) = ReturnedNone
    /\ kv' = Set(kv, make_key(d), pickle_dumps(Normalised(d)))
    /\ ret' = Call("update", Normalised(d), ReturnedNone)
    /\ UNCHANGED <<keyVars, counter, zset, cpc, carg, ckey, chistory, ccurrent,
                   cseen, last, nsaves, running, schedVars, cancelVars, sweepVars>>

\* lines 76-77: read(d) returned None; current.results = ... raises
UpdateMiss(p, d) ==
    /\ cpc[p] = "idle"
    /\ read(kv, d) = ReturnedNone
    /\ ret' = Call("update", Normalised(d), Raised("AttributeError"))
    /\ UNCHANGED <<keyVars, storeVars, cpc, carg, ckey, chistory, ccurrent, cseen, last,
                   nsaves, running, schedVars, cancelVars, sweepVars>>

\* line 75 -> line 33: the bytes under d's key do not unpickle; pickle.loads
\* raises inside read, and the exception leaves update
UpdateUnpicklable(p, d) ==
    /\ cpc[p] = "idle"
    /\ read(kv, d).kind = "raise"
    /\ ret' = Call("update", Normalised(d), read(kv, d))
    /\ UNCHANGED <<keyVars, storeVars, cpc, carg, ckey, chistory, ccurrent, cseen,
                   last, nsaves, running, schedVars, cancelVars, sweepVars>>

\* line 85: conn.set(key, pickle.dumps(current, protocol=4)); update returns
UpdateSet(p) ==
    /\ cpc[p] = "update_set"
    /\ kv' = Set(kv, ckey[p], pickle_dumps(ccurrent[p]))
    /\ last' = Set(last, ckey[p],
                   ByUpdate(cseen[p], Provenance(last, ckey[p]), carg[p]))
    /\ cpc' = [cpc EXCEPT ![p] = "idle"]
    /\ ckey' = [ckey EXCEPT ![p] = ""]
    /\ ccurrent' = [ccurrent EXCEPT ![p] = NoEntry]
    /\ cseen' = [cseen EXCEPT ![p] = NotSeen]
    /\ carg' = [carg EXCEPT ![p] = NoEntry]
    /\ ret' = Call("update", carg[p], ReturnedNone)
    /\ UNCHANGED <<keyVars, counter, zset, chistory, nsaves, running, schedVars,
                   cancelVars, sweepVars>>

(***************************************************************************)
(* make_key(q), lines 8-20, called on the object a thread holds.           *)
(***************************************************************************)
MakeKey(p) ==
    /\ qobj' = [qobj EXCEPT ![p] = Normalised(qobj[p])]
    /\ qkey' = [qkey EXCEPT ![p] = make_key(qobj[p])]
    /\ UNCHANGED <<qgiven, storeVars, clientVars, last, nsaves, running,
                   schedVars, cancelVars, sweepVars>>

\* The redis command a thread is about to issue raises (the server cannot be
\* reached): the exception leaves save or update at that line.
ClientStoreFails(p) ==
    /\ cpc[p] \in {"save_incr", "save_zadd", "save_set", "update_set"}
    /\ cpc' = [cpc EXCEPT ![p] = "idle"]
    /\ ckey' = [ckey EXCEPT ![p] = ""]
    /\ chistory' = [chistory EXCEPT ![p] = 0]
    /\ ccurrent' = [ccurrent EXCEPT ![p] = NoEntry]
    /\ cseen' = [cseen EXCEPT ![p] = NotSeen]
    /\ carg' = [carg EXCEPT ![p] = NoEntry]
    /\ ret' = Call(IF cpc[p] = "update_set" THEN "update" ELSE "save", carg[p],
                   Raised("ConnectionError"))
    /\ UNCHANGED <<keyVars, storeVars, last, nsaves, running, schedVars,
                   cancelVars, sweepVars>>

(***************************************************************************)
(* get_twenty_queries(x), lines 44-70.                                     *)
(***************************************************************************)
BatchStop == 20      \* line 48: zrange(..., int(x), int(x) + 20)
FullBatch == 20      \* webapp.py line 851: if len(queries) < 20

\* lines 56-68: every row of the pipeline's answer is unpickled and its seven
\* identity attributes make a SearchQuery; a row that is None raises.
RowsLoad(rows) == \A n \in 1..Len(rows) : Loadable(rows[n])

\* line 57: what pickle.loads raises on the first row it cannot load: None
\* (the key holds no value) is no bytes object, other bytes are no pickle
LoadError(rows) ==
    LET n == CHOOSE m \in 1..Len(rows) :
                 /\ ~Loadable(rows[m])
                 /\ \A l \in 1..(m - 1) : Loadable(rows[l])
    IN IF rows[n] = NoBytes THEN "TypeError" ELSE "UnpicklingError"

RowQuery(row) ==
    LET r == pickle_loads(row)
    IN SearchQuery(r.query, r.engines, r.categories, r.language, r.safesearch,
                   r.pageno, r.time_range)

\* The whole function on one state of the server (no writer between its two
\* round trips): the list returned, when every row unpickles.
get_twenty_queries(z, store, start) ==
    LET ks == ZRange(z, start, start + BatchStop)
        rows == [n \in 1..Len(ks) |-> Get(store, ks[n])]
    IN IF ks = <<>> THEN <<>>
       ELSE [n \in 1..Len(rows) |-> RowQuery(rows[n])]

BatchRaises(z, store, start) ==
    LET ks == ZRange(z, start, start + BatchStop)
    IN ~RowsLoad([n \in 1..Len(ks) |-> Get(store, ks[n])])

\* A request thread calls get_twenty_queries(start) and no command of another
\* thread falls between its ZRANGE and its pipeline.
BatchCall(p, start) ==
    /\ cpc[p] = "idle"
    /\ ret' = IF BatchRaises(zset, kv, start)
              THEN [Call("get_twenty_queries", NoEntry,
                         Raised(LoadError(
                             LET ks == ZRange(zset, start, start + BatchStop)
                             IN [n \in 1..Len(ks) |-> Get(kv, ks[n])])))
                        EXCEPT !.start = start]
              ELSE [Call("get_twenty_queries", NoEntry, ReturnedNone)
                        EXCEPT !.start = start,
                               !.batch = get_twenty_queries(zset, kv, start)]
    /\ UNCHANGED <<keyVars, storeVars, cpc, carg, ckey, chistory, ccurrent, cseen, last,
                   nsaves, running, schedVars, cancelVars, sweepVars>>

(***************************************************************************)
(* update_results, lines 839-854, and wait_updating, lines 833-836.        *)
(***************************************************************************)
\* SchedWhile as `while True`: the event is looked at on line 848 alone.
SchedWhileTrue ==
    /\ spc = "while"
    /\ spc' = "zrange"
    /\ UNCHANGED <<keyVars, storeVars, clientVars, last, nsaves, running, x, keys, queries,
                   i, sdata, scurrent, sret, sseen, cancelVars, sweepVars>>

\* line 842: while not running.is_set()
SchedWhile ==
    /\ spc = "while"
    /\ spc' = IF running THEN "returned" ELSE "zrange"
    /\ UNCHANGED <<keyVars, storeVars, clientVars, last, nsaves, running, x, keys, queries,
                   i, sdata, scurrent, sret, sseen, cancelVars, sweepVars>>

\* SchedZrange without lines 49-50: the pipeline is run for no key as well.
SchedZrangeAlwaysPipes ==
    /\ spc = "zrange"
    /\ keys' = ZRange(zset, x, x + BatchStop)
    /\ spc' = "pipe"
    /\ IF x = 0
       THEN /\ sweepKeys' = Members(zset)
            /\ refreshed' = <<>>
            /\ sweepEnded' = FALSE
       ELSE UNCHANGED sweepVars
    /\ UNCHANGED <<keyVars, storeVars, clientVars, last, nsaves, running, x,
                   queries, i, sdata, scurrent, sret, sseen, cancelVars>>

\* line 843 -> line 48: keys = conn.zrange(...); no key: the empty batch
SchedZrange ==
    /\ spc = "zrange"
    /\ keys' = ZRange(zset, x, x + BatchStop)
    /\ IF keys' = <<>>
       THEN /\ queries' = <<>>
            /\ spc' = "advance"
       ELSE /\ queries' = queries
            /\ spc' = "pipe"
    /\ IF x = 0
       THEN /\ sweepKeys' = Members(zset)
            /\ refreshed' = <<>>
            /\ sweepEnded' = FALSE
       ELSE UNCHANGED sweepVars
    /\ UNCHANGED <<keyVars, storeVars, clientVars, last, nsaves, running, x, i, sdata,
                   scurrent, sret, sseen, cancelVars>>

\* lines 52-70: the pipeline of GETs, then the rows are unpickled
SchedPipe ==
    /\ spc = "pipe"
    /\ LET rows == [n \in 1..Len(keys) |-> Get(kv, keys[n])]
       IN IF RowsLoad(rows)
          THEN /\ queries' = [n \in 1..Len(rows) |-> RowQuery(rows[n])]
               /\ i' = 1
               /\ spc' = "for"
               /\ sret' = sret
          ELSE /\ spc' = "raised"
               /\ sret' = RaisedAt(LoadError(rows), spc)
               /\ UNCHANGED <<queries, i>>
    /\ keys' = <<>>
    /\ UNCHANGED <<keyVars, storeVars, clientVars, last, nsaves, running, x, sdata,
                   scurrent, sseen, cancelVars, sweepVars>>

\* line 844-845: the next query of the batch; its search begins
SchedSearch ==
    /\ spc = "for"
    /\ i <= Len(queries)
    /\ spc' = "search"
    /\ begun' = IF running THEN begun + 1 ELSE begun
    /\ UNCHANGED <<keyVars, setAt, storeVars, clientVars, last, nsaves, running, x, keys, queries,
                   i, sdata, scurrent, sret, sseen, sweepVars>>

\* line 844: the batch is exhausted
SchedForEnd ==
    /\ spc = "for"
    /\ i > Len(queries)
    /\ spc' = "advance"
    /\ UNCHANGED <<keyVars, storeVars, clientVars, last, nsaves, running, x, keys, queries,
                   i, sdata, scurrent, sret, sseen, cancelVars, sweepVars>>

\* lines 845-846: search.search returns container c; searchData is built
SchedSearchReturns(c) ==
    /\ spc = "search"
    /\ sdata' = create_search_data(queries[i], c)
    /\ spc' = "update"
    /\ UNCHANGED <<keyVars, storeVars, clientVars, last, nsaves, running, x, keys, queries,
                   i, scurrent, sret, sseen, cancelVars, sweepVars>>

\* line 845: search.search raises; nothing in update_results catches it
SchedSearchRaises ==
    /\ spc = "search"
    /\ spc' = "raised"
    /\ sret' = RaisedAt("SearchError", spc)
    /\ UNCHANGED <<keyVars, storeVars, clientVars, last, nsaves, running, x, keys, queries,
                   i, sdata, scurrent, sseen, cancelVars, sweepVars>>

\* line 847 -> lines 74-84: update's read
SchedUpdateRead ==
    /\ spc = "update"
    /\ IF read(kv, sdata).kind = "return"
       THEN /\ scurrent' = CopyOutputs(read(kv, sdata).value, sdata)
            /\ sseen' = Provenance(last, make_key(sdata))
            /\ spc' = "update_set"
            /\ sret' = sret
       ELSE /\ spc' = "raised"
            /\ sret' = IF read(kv, sdata) = ReturnedNone
                       THEN RaisedAt("AttributeError", spc)
                       ELSE RaisedAt(read(kv, sdata).exc, spc)
            /\ UNCHANGED <<scurrent, sseen>>
    /\ sdata' = Normalised(sdata)
    /\ UNCHANGED <<keyVars, storeVars, clientVars, last, nsaves, running, x, keys, queries,
                   i, cancelVars, sweepVars>>

\* SchedUpdateSet as the commands of save: a number is drawn and the key is
\* added to the index again before the SET.
SchedUpdateSetSaves ==
    /\ spc = "update_set"
    /\ counter' = counter + 1
    /\ zset' = ZAdd(zset, make_key(sdata), counter + 1)
    /\ kv' = Set(kv, make_key(sdata), pickle_dumps(scurrent))
    /\ last' = Set(last, make_key(sdata),
                   ByUpdate(sseen, Provenance(last, make_key(sdata)), sdata))
    /\ refreshed' = Append(refreshed, make_key(sdata))
    /\ scurrent' = NoEntry
    /\ sseen' = NotSeen
    /\ spc' = "is_set"
    /\ UNCHANGED <<keyVars, clientVars, nsaves, running, x, keys, queries, i,
                   sdata, sret, cancelVars, sweepKeys, sweepEnded>>

\* line 85: update's SET
SchedUpdateSet ==
    /\ spc = "update_set"
    /\ kv' = Set(kv, make_key(sdata), pickle_dumps(scurrent))
    /\ last' = Set(last, make_key(sdata),
                   ByUpdate(sseen, Provenance(last, make_key(sdata)), sdata))
    /\ refreshed' = Append(refreshed, make_key(sdata))
    /\ scurrent' = NoEntry
    /\ sseen' = NotSeen
    /\ spc' = "is_set"
    /\ UNCHANGED <<keyVars, counter, zset, clientVars, nsaves, running, x, keys, queries,
                   i, sdata, sret, cancelVars, sweepKeys, sweepEnded>>

\* SchedIsSet without lines 848-849: the event is looked at once a batch.
SchedIsSetSkipped ==
    /\ spc = "is_set"
    /\ spc' = "for"
    /\ i' = i + 1
    /\ sdata' = NoEntry
    /\ UNCHANGED <<keyVars, storeVars, clientVars, last, nsaves, running, x, keys, queries,
                   scurrent, sret, sseen, cancelVars, sweepVars>>

\* lines 848-849: if running.is_set(): return
SchedIsSet ==
    /\ spc = "is_set"
    /\ IF running
       THEN /\ spc' = "returned"
            /\ i' = i
       ELSE /\ spc' = "for"
            /\ i' = i + 1
    /\ sdata' = NoEntry
    /\ UNCHANGED <<keyVars, storeVars, clientVars, last, nsaves, running, x, keys, queries,
                   scurrent, sret, sseen, cancelVars, sweepVars>>

\* SchedAdvance with `<=` on line 851: a batch of 20 ends the sweep too.
SchedAdvanceInclusive(positive) ==
    /\ spc = "advance"
    /\ IF Len(queries) <= FullBatch
       THEN /\ x' = 0
            /\ spc' = IF positive THEN "wait" ELSE "while"
            /\ sweepEnded' = TRUE
       ELSE /\ x' = x + Len(queries)
            /\ spc' = "while"
            /\ sweepEnded' = sweepEnded
    /\ queries' = <<>>
    /\ i' = 0
    /\ UNCHANGED <<keyVars, storeVars, clientVars, last, nsaves, running, keys,
                   sdata, scurrent, sret, sseen, cancelVars, sweepKeys, refreshed>>

\* SchedAdvance with a fixed stride: x += 20 after every batch but the empty
\* one, which ends the sweep.
SchedAdvanceFixedStride(positive) ==
    /\ spc = "advance"
    /\ IF Len(queries) = 0
       THEN /\ x' = 0
            /\ spc' = IF positive THEN "wait" ELSE "while"
            /\ sweepEnded' = TRUE
       ELSE /\ x' = x + FullBatch
            /\ spc' = "while"
            /\ sweepEnded' = sweepEnded
    /\ queries' = <<>>
    /\ i' = 0
    /\ UNCHANGED <<keyVars, storeVars, clientVars, last, nsaves, running, keys,
                   sdata, scurrent, sret, sseen, cancelVars, sweepKeys, refreshed>>

\* lines 850-854 and 834-836: x += len(queries); after a batch of fewer than
\* 20, x = 0 and wait_updating, whose wait is positive (the thread blocks in
\* running.wait) or not; then start_time is taken again
SchedAdvance(positive) ==
    /\ spc = "advance"
    /\ IF Len(queries) < FullBatch
       THEN /\ x' = 0
            /\ spc' = IF positive THEN "wait" ELSE "while"
            /\ sweepEnded' = TRUE
       ELSE /\ x' = x + Len(queries)
            /\ spc' = "while"
            /\ sweepEnded' = sweepEnded
    /\ queries' = <<>>
    /\ i' = 0
    /\ UNCHANGED <<keyVars, storeVars, clientVars, last, nsaves, running, keys, sdata,
                   scurrent, sret, sseen, cancelVars, sweepKeys, refreshed>>

\* SchedWaitSet going on to the next batch: the event that ended the wait is
\* not looked at before get_twenty_queries is called again.
SchedWaitSetScans ==
    /\ spc = "wait"
    /\ running
    /\ spc' = "zrange"
    /\ UNCHANGED <<keyVars, storeVars, clientVars, last, nsaves, running, x, keys,
                   queries, i, sdata, scurrent, sret, sseen, cancelVars, sweepVars>>

\* line 836: running.wait(wait) returns because the event is set
SchedWaitSet ==
    /\ spc = "wait"
    /\ running
    /\ spc' = "while"
    /\ UNCHANGED <<keyVars, storeVars, clientVars, last, nsaves, running, x, keys, queries,
                   i, sdata, scurrent, sret, sseen, cancelVars, sweepVars>>

\* line 836: running.wait(wait) returns because the time is up
SchedWaitTimeout ==
    /\ spc = "wait"
    /\ ~running
    /\ spc' = "while"
    /\ UNCHANGED <<keyVars, storeVars, clientVars, last, nsaves, running, x, keys, queries,
                   i, sdata, scurrent, sret, sseen, cancelVars, sweepVars>>

\* A redis command of the refresh thread raises: nothing catches it
SchedStoreFails ==
    /\ spc \in {"zrange", "pipe", "update", "update_set"}
    /\ spc' = "raised"
    /\ sret' = RaisedAt("ConnectionError", spc)
    /\ UNCHANGED <<keyVars, storeVars, clientVars, last, nsaves, running, x, keys, queries,
                   i, sdata, scurrent, sseen, cancelVars, sweepVars>>

\* run(), line 869: running.set()
Shutdown ==
    /\ ~running
    /\ running' = TRUE
    /\ setAt' = spc
    /\ UNCHANGED <<keyVars, storeVars, clientVars, last, nsaves, schedVars, begun,
                   sweepVars>>

(***************************************************************************)
(* Inputs.                                                                 *)
(***************************************************************************)
Containers == {Container(1), Container(2)}

Cat(time_range) ==
    SearchQuery("cat", "['google']", <<"general">>, "en-US", 0, 1, time_range)

Dog == SearchQuery("dog", "['google']", <<"images">>, "en-US", 1, 2, "day")

\* The key holds categories[0] alone: CatAll is the first page of "general",
\* which webapp.index() searches in three categories.
CatAll ==
    SearchQuery("cat", "['google']", <<"general", "videos", "images">>, "en-US",
                0, 1, "")

\* Cat(None) and CatAll are different objects with one key.
Queries == {Cat(None), CatAll, Dog}

\* What save is given: the entry of a first search.
Saved == {create_search_data(q, Container(1)) : q \in {Cat(None), Dog}}

\* What update is given: the entry of a later search.
Refreshed == {create_search_data(q, Container(2)) : q \in {CatAll, Dog}}

(***************************************************************************)
(* Spec: the cache under concurrent request threads.  Each thread calls    *)
(* read, save and update with any of the inputs.  The refresh thread       *)
(* touches the server through get_twenty_queries, which writes nothing,    *)
(* and through update, which the request threads call here with every      *)
(* input it could pass.                                                    *)
(***************************************************************************)
ClientStep ==
    \/ \E p \in Clients, d \in Saved : nsaves < MaxSaves /\ SaveCall(p, d)
    \/ \E p \in Clients : SaveIncr(p)
    \/ \E p \in Clients : SaveZadd(p)
    \/ \E p \in Clients : SaveSet(p)
    \/ \E p \in Clients, q \in Queries : ReadCall(p, q)
    \/ \E p \in Clients, d \in Refreshed : UpdateRead(p, d)
    \/ \E p \in Clients, d \in Refreshed : UpdateMiss(p, d)
    \/ \E p \in Clients : UpdateSet(p)
    \/ \E p \in Clients : ClientStoreFails(p)

Next == ClientStep

Spec == Init /\ [][Next]_vars

(***************************************************************************)
(* SpecRefresh: the refresh thread beside one request thread that saves,   *)
(* and the shutdown.                                                       *)
(***************************************************************************)
SaverStep ==
    \/ \E d \in Saved : nsaves < MaxSaves /\ SaveCall(1, d)
    \/ SaveIncr(1)
    \/ SaveZadd(1)
    \/ SaveSet(1)

\* The thread's steps when every call returns and nothing is shut down.
SchedRun(found) ==
    \/ SchedWhile
    \/ SchedZrange
    \/ SchedPipe
    \/ SchedSearch
    \/ SchedForEnd
    \/ \E c \in found : SchedSearchReturns(c)
    \/ SchedUpdateRead
    \/ SchedUpdateSet
    \/ SchedIsSet
    \/ \E positive \in BOOLEAN : SchedAdvance(positive)
    \/ SchedWaitTimeout

SchedStep ==
    \/ SchedRun(Containers)
    \/ SchedWaitSet
    \/ SchedSearchRaises
    \/ SchedStoreFails

NextRefresh == SaverStep \/ SchedStep \/ Shutdown

SpecRefresh == Init /\ [][NextRefresh]_vars

(***************************************************************************)
(* Statements about the cache functions (checked under Spec).              *)
(***************************************************************************)
\* No request thread is inside a call.
Idle == \A p \in Clients : cpc[p] = "idle"

\* e.query: the identity of an entry, as the SearchQuery read is given
QueryOf(e) ==
    SearchQuery(e.query, e.engines, e.categories, e.language, e.safesearch,
                e.pageno, e.time_range)

\* C1: after save(e) has returned, and until another SET writes e's key,
\* read(e.query) returns an entry equal to e, identity and outputs.
C1_SaveThenRead ==
    \A k \in DOMAIN last :
        last[k].op = "save" => read(kv, QueryOf(last[k].e)) = Returned(last[k].e)

\* A request thread has read back the entry a save with time_range None left.
C1_Witness ==
    /\ ret.op = "read"
    /\ ret.back.kind = "return"
    /\ \E k \in DOMAIN last :
          /\ last[k].op = "save"
          /\ ret.back.value = last[k].e
          /\ k = make_key(Cat(None))

\* C2: no two members of SEARCH_HISTORY_KEYS carry the same score, however
\* the commands of concurrent saves interleave.
C2_DistinctScores ==
    \A a, b \in 1..Len(zset) : a # b => zset[a].score # zset[b].score

\* Two saves of different keys ran side by side and both are in the index.
C2_Witness ==
    /\ Len(zset) = 2
    /\ cpc[1] = "save_set"
    /\ cpc[2] = "save_set"
    /\ ckey[1] # ckey[2]

\* C3: a member of the index keeps the score its first save gave it: no step
\* changes the score of a member.
C3_StableScore ==
    [][\A m \in Members(zset) :
          m \in Members(zset') /\ ScoreOf(zset', m) = ScoreOf(zset, m)]_vars

\* C4: after save(e) then update(e2) on e's key, read returns the eight outputs
\* of e2 and the seven identity attributes of e.
C4_UpdateMerges ==
    \A k \in DOMAIN last :
        (last[k].op = "update" /\ last[k].seq) =>
            LET r == read(kv, QueryOf(last[k].e2))
            IN /\ r.kind = "return"
               /\ Outputs(r.value) = Outputs(last[k].e2)
               /\ Identity(r.value) = Identity(last[k].e)

\* An update has replaced the outputs of a saved entry whose identity object
\* differs from the one the update was given.
C4_Witness ==
    \E k \in DOMAIN last :
        /\ last[k].op = "update"
        /\ last[k].seq
        /\ Outputs(last[k].e2) # Outputs(last[k].e)
        /\ Identity(last[k].e2) # Identity(last[k].e)

\* C5: update(d) on a key no SET ever wrote raises to its caller.
C5_UpdateNeverSaved ==
    (ret.op = "update" /\ make_key(ret.arg) \notin DOMAIN last) =>
        ret.back = Raised("AttributeError")

\* An update of a key never saved has raised while another key is stored.
C5_Witness ==
    /\ ret.op = "update"
    /\ make_key(ret.arg) \notin DOMAIN last
    /\ ret.back.kind = "raise"
    /\ DOMAIN kv # {}

\* C16: in every state, also inside a save and with saves and updates of
\* other threads under way, every key that holds a value is a member of
\* SEARCH_HISTORY_KEYS.
C16_StoredIsIndexed == DOMAIN kv \subseteq Members(zset)

\* One thread is between the ZADD and the SET of a key that holds no value
\* yet while another is inside the update of a stored entry.
C16_Witness ==
    /\ cpc[1] = "save_set"
    /\ ckey[1] \notin DOMAIN kv
    /\ cpc[2] = "update_set"
    /\ ckey[2] \in DOMAIN kv

\* C17 as stated: every ZADD of a save adds one member to the index, so that
\* the index holds one member for each sequence number given out to it.
C17_OneMemberPerSave ==
    [][zset' # zset => Len(zset') = Len(zset) + 1]_vars

\* C17 as amended: the index holds a key once, however often it was saved;
\* the ZADD of a later save gives the member its score, and a batch read
\* with no save under way holds the query once.
C17_SavedTwiceOnce ==
    /\ \A a, b \in 1..Len(zset) : a # b => zset[a].member # zset[b].member
    /\ \A k \in DOMAIN last : last[k].op = "save" => k \in Members(zset)
    /\ (Idle /\ ~BatchRaises(zset, kv, 0)) =>
          LET batch == get_twenty_queries(zset, kv, 0)
          IN \A a, b \in 1..Len(batch) : a # b => batch[a] # batch[b]

\* Two saves of one query have returned: two numbers were given out, and the
\* index holds the key once, with the second.
C17_Witness ==
    /\ Idle
    /\ counter = 2
    /\ Len(zset) = 1
    /\ zset[1].score = 2
    /\ ret.op = "save"
    /\ ret.back = ReturnedNone

\* C22: update creates no entry: a key gets its first value by the SET of a
\* save alone, and an update of a key that holds no value changes neither
\* the values nor the index nor the counter.
C22_UpdateNeverCreates ==
    [][/\ \A k \in DOMAIN kv' \ DOMAIN kv :
              \E p \in Clients : cpc[p] = "save_set" /\ ckey[p] = k
       /\ (ret' # ret /\ ret'.op = "update"
              /\ make_key(ret'.arg) \notin DOMAIN kv) => UNCHANGED storeVars]_vars

\* update has raised for a key that a save under way has added to the index
\* and not written yet, and the key still holds no value.
C22_Witness ==
    /\ ret.op = "update"
    /\ ret.back.kind = "raise"
    /\ make_key(ret.arg) \in Members(zset)
    /\ make_key(ret.arg) \notin DOMAIN kv

\* C23: the eight outputs of a stored entry are those one call was given,
\* whole, however saves and updates of its key interleave.
C23_OutputsOfOneCall ==
    \A k \in DOMAIN kv :
        /\ Loadable(kv[k])
        /\ \E d \in Saved \cup Refreshed :
              Outputs(pickle_loads(kv[k])) = Outputs(d)

\* The SET of an update whose read another write had overtaken (two updates
\* of one key side by side) has won, and the entry holds its outputs.
C23_Witness ==
    \E k \in DOMAIN kv :
        /\ last[k].op = "update"
        /\ ~last[k].seq
        /\ \E d \in Refreshed : Outputs(pickle_loads(kv[k])) = Outputs(d)

\* C28: after a save that a failing redis command ended, whichever of its
\* three commands it was, every member of the index holds a value.
C28_FailedSaveConsistent ==
    (Idle /\ ret.op = "save" /\ ret.back.kind = "raise") =>
        Members(zset) \subseteq DOMAIN kv

(***************************************************************************)
(* Statements about the refresh thread (checked under SpecRefresh).        *)
(***************************************************************************)
Exited == {"returned", "raised"}

\* C8: once `running` is set, the thread begins the search of at most one
\* more query.
C8_OneMoreSearch == begun <= 1

\* The event was set inside a batch of two; one search was begun after it and
\* the thread returned with the second query not started.
C8_Witness ==
    /\ spc = "returned"
    /\ setAt \in {"for", "is_set"}
    /\ begun = 1
    /\ Len(queries) = 2
    /\ i = 1

\* The refresh thread keeps being scheduled: a step it can take is taken.
SpecRefreshLive == SpecRefresh /\ WF_vars(SchedStep)

\* C9: once `running` is set the thread leaves update_results, wherever it
\* was, in a batch or in wait_updating (it returns, unless a call raised and
\* the exception ended it first).
C9_LoopExits == running ~> (spc \in Exited)

\* The event was set during running.wait and the thread has returned.
C9_Witness ==
    /\ spc = "returned"
    /\ setAt = "wait"

\* C15: while nothing was ever saved, get_twenty_queries hands the thread the
\* empty list: it raises nothing of its own and never runs its pipeline.
C15_EmptyBatch ==
    counter = 0 =>
        /\ spc # "pipe"
        /\ sret.at # "pipe"
        /\ queries = <<>>
        /\ get_twenty_queries(zset, kv, x) = <<>>
        /\ ~BatchRaises(zset, kv, x)

\* The thread holds the empty batch of a server nothing was saved on.
C15_Witness ==
    /\ counter = 0
    /\ kv = <<>>
    /\ spc = "advance"
    /\ keys = <<>>
    /\ queries = <<>>

\* C18: the event is tested before the search of each query is begun: no
\* search is begun after the event was set (but for the one the thread was
\* about to begin, standing at the for line with every call before it done).
C18_NoSearchAfterSet == begun > 0 => setAt = "for"

\* C20: a redis command of get_twenty_queries or update that fails for want
\* of the server does not end the thread: the exception ends the batch only.
C20_StoreFailureEndsBatch ==
    ~(/\ spc = "raised"
      /\ sret.exc = "ConnectionError"
      /\ sret.at \in {"zrange", "pipe", "update", "update_set"})

\* C24: when the event is set while the thread is in running.wait, the wait
\* returns and the thread leaves update_results with no get_twenty_queries
\* in between; when the wait ends with the event not set, the thread goes
\* back to the while with the cursor at 0.
C24_WaitCancelled ==
    /\ [](setAt = "wait" => (spc \in {"wait", "while", "returned"} /\ x = 0))
    /\ [][(spc = "wait" /\ spc' # "wait") => (spc' = "while" /\ x' = 0)]_vars
    /\ (setAt = "wait") ~> (spc = "returned")

\* A sweep has refreshed an entry, the event was set during the wait after
\* it, and the thread has returned.
C24_Witness ==
    /\ spc = "returned"
    /\ setAt = "wait"
    /\ sweepEnded
    /\ refreshed # <<>>

\* C25: no step of the refresh thread changes the counter or the index, and
\* the one step of it that writes a value is the SET of update, under a key
\* that holds a value already.
C25_SchedulerOnlyUpdates ==
    [][/\ spc' # spc => (counter' = counter /\ zset' = zset)
       /\ (spc' # spc /\ kv' # kv) =>
              (spc = "update_set" /\ DOMAIN kv' = DOMAIN kv)]_vars

\* The thread has written the refreshed outputs of an entry.
C25_Witness ==
    /\ spc = "is_set"
    /\ refreshed # <<>>
    /\ \E k \in DOMAIN last : last[k].op = "update"
    /\ counter = Len(zset)

\* C26: a get_twenty_queries that falls between the ZADD and the SET of a
\* save, so that a member of its window holds no value yet, raises nothing,
\* and the thread goes on.
C26_BatchDuringSave ==
    ~(/\ spc = "raised"
      /\ sret.at = "pipe"
      /\ sret.exc = "TypeError")

\* C10: a query whose search or update raises does not end the batch: the
\* thread is never ended by it with queries of the batch left.
C10_FailureSkipsQuery ==
    ~(/\ spc = "raised"
      /\ sret.at \in {"search", "update", "update_set"}
      /\ i < Len(queries))

(***************************************************************************)
(* SpecBatch: one request thread saves the pages of a query one after the  *)
(* other while another calls get_twenty_queries at offsets 0 and 20.       *)
(***************************************************************************)
MaxPages == 25

Page(n) == SearchQuery("cat", "['google']", <<"general">>, "en-US", 0, n, "")

PageEntry(n) == create_search_data(Page(n), Container(1))

NextBatch ==
    \/ nsaves < MaxPages /\ SaveCall(1, PageEntry(nsaves + 1))
    \/ SaveIncr(1)
    \/ SaveZadd(1)
    \/ SaveSet(1)
    \/ \E start \in {0, BatchStop} : BatchCall(2, start)

SpecBatch == Init /\ [][NextBatch]_vars

\* C6: with N queries saved, 20 < N <= 40, and no save under way,
\* get_twenty_queries(0) is the 20 members of lowest score in rising order,
\* get_twenty_queries(20) is the N - 20 others, and no query is in both.
C6_TwentyThenRest ==
    (Idle /\ Len(zset) > 20 /\ Len(zset) <= 40) =>
        LET first == get_twenty_queries(zset, kv, 0)
            second == get_twenty_queries(zset, kv, 20)
        IN /\ Len(first) = 20
           /\ \A n \in 1..Len(first) : make_key(first[n]) = zset[n].member
           /\ Len(second) = Len(zset) - 20
           /\ \A m \in 1..Len(first), n \in 1..Len(second) : first[m] # second[n]

(***************************************************************************)
(* SpecSweep: the process starts on a server that earlier runs have filled *)
(* (redis outlives the process): the pages 1..n of a query, saved one      *)
(* after the other.  The refresh thread sweeps them while a request thread *)
(* saves page 1 again, or a page never saved.                              *)
(***************************************************************************)
MaxPreload == 22

RECURSIVE Preloaded(_)
\* The server after save(PageEntry(1)), ..., save(PageEntry(n)), lines 38-41
Preloaded(n) ==
    IF n = 0
    THEN [kv |-> <<>>, counter |-> 0, zset |-> <<>>, last |-> <<>>]
    ELSE LET before == Preloaded(n - 1)
             d == Normalised(PageEntry(n))
             key == make_key(PageEntry(n))
             history == before.counter + 1
         IN [kv |-> Set(before.kv, key, pickle_dumps(d)),
             counter |-> history,
             zset |-> ZAdd(before.zset, key, history),
             last |-> Set(before.last, key, BySave(d))]

InitSweep ==
    /\ \E n \in (FullBatch - 1)..MaxPreload :
          /\ kv = Preloaded(n).kv
          /\ counter = Preloaded(n).counter
          /\ zset = Preloaded(n).zset
          /\ last = Preloaded(n).last
    /\ InitThreads
    /\ NoKeyCall

NextSweep ==
    \/ \E n \in {1, MaxPreload + 1} : nsaves < MaxSaves /\ SaveCall(1, PageEntry(n))
    \/ SaveIncr(1)
    \/ SaveZadd(1)
    \/ SaveSet(1)
    \/ SchedRun({Container(2)})

SpecSweep == InitSweep /\ [][NextSweep]_vars

Count(seq, v) == Cardinality({n \in 1..Len(seq) : seq[n] = v})

\* C7: when a sweep ends, every member the index had when the sweep read its
\* first batch has been written by update exactly once in the sweep.
C7_OncePerSweep ==
    sweepEnded => \A k \in sweepKeys : Count(refreshed, k) = 1

\* C27: the cursor is never negative and never beyond the number of members
\* of the index, whatever is saved while the thread sweeps.
C27_CursorInIndex == 0 <= x /\ x <= Len(zset)

\* After a full batch the cursor stands at the end of the index, with a save
\* begun since the process started.
C27_Witness ==
    /\ x > 0
    /\ x = Len(zset)
    /\ nsaves > 0

\* C19: the thread calls wait_updating exactly after a batch of fewer than 20
\* queries, with the cursor back at 0 (it blocks in running.wait when the
\* time left is positive); after a batch of 20 or more it goes to the next
\* batch with the cursor moved on by the length of the batch.
C19_WaitAfterShortBatch ==
    [][/\ (spc = "advance" /\ spc' # "advance") =>
            IF Len(queries) < 20
            THEN x' = 0 /\ spc' \in {"wait", "while"}
            ELSE x' = x + Len(queries) /\ spc' = "while"
       /\ (spc # "wait" /\ spc' = "wait") =>
            spc = "advance" /\ Len(queries) < 20 /\ x' = 0
       /\ x' # x => spc = "advance"]_vars

\* A sweep of more than 20 queries is over: a batch of 20 or more moved the
\* cursor on, a shorter one put it back to 0 and the thread waits.
C19_Witness ==
    /\ spc = "wait"
    /\ x = 0
    /\ sweepEnded
    /\ Len(refreshed) > 20

(***************************************************************************)
(* SpecCorrupt: the process starts on a server where the value of one key  *)
(* was written by a process of another version, which pickles with a       *)
(* protocol this one does not load (redis outlives the process and is      *)
(* shared).  A request thread reads, saves and updates.                    *)
(***************************************************************************)
\* The bytes of d as a later protocol writes them.
OtherPickle(d) == [pickle_dumps(d) EXCEPT ![1] = PickleProtocol + 1]

\* The server after save(d), lines 38-41, by that process.
InitCorrupt ==
    /\ \E d \in Saved :
          /\ kv = Set(<<>>, make_key(d), OtherPickle(Normalised(d)))
          /\ zset = ZAdd(<<>>, make_key(d), 1)
    /\ counter = 1
    /\ last = <<>>
    /\ InitThreads
    /\ NoKeyCall

NextCorrupt ==
    \/ SaverStep
    \/ \E q \in Queries : ReadCall(1, q)
    \/ \E d \in Refreshed : UpdateRead(1, d)
    \/ \E d \in Refreshed : UpdateMiss(1, d)
    \/ \E d \in Refreshed : UpdateUnpicklable(1, d)
    \/ UpdateSet(1)
    \/ BatchCall(1, 0)

SpecCorrupt == InitCorrupt /\ [][NextCorrupt]_vars

\* C11: read(q) hands back an entry or None and raises nothing, when no value
\* is stored under q's key and when the bytes stored there do not unpickle.
C11_ReadMissOrCorrupt ==
    ret.op = "read" => ret.back.kind \in {"return", "None"}

(***************************************************************************)
(* SpecKey: every thread holds a SearchQuery object, any of KeyQueries,    *)
(* and calls make_key on it.                                               *)
(***************************************************************************)
\* Query texts and engine lists with and without a ':', one or several
\* categories, every kind of time_range.
KeyQueries ==
    {SearchQuery(query, engines, categories, "en-US", 0, 1, time_range) :
        query \in {"cat", "cat:x"},
        engines \in {"['google']", "x:['google']"},
        categories \in {<<"general">>, <<"general", "videos">>},
        time_range \in {None, "", "day"}}

InitKey ==
    /\ EmptyServer
    /\ InitThreads
    /\ qobj \in [Clients -> KeyQueries]
    /\ qkey = [p \in Clients |-> ""]
    /\ qgiven = qobj

NextKey == \E p \in Clients : MakeKey(p)

SpecKey == InitKey /\ [][NextKey]_vars

\* The seven values the key is made of (of the categories, the first).
KeyFields(q) ==
    <<q.query, q.engines, q.categories[1], q.language, q.safesearch, q.pageno,
      q.time_range>>

\* C12: two queries that differ in one of the seven identity fields (the
\* time_range taken as make_key normalises it) have different keys, also
\* when a field holds a ':'.
C12_KeysDiffer ==
    \A p1, p2 \in Clients :
        (/\ qkey[p1] # ""
         /\ qkey[p2] # ""
         /\ KeyFields(qobj[p1]) # KeyFields(qobj[p2])) => qkey[p1] # qkey[p2]

\* C13: make_key leaves every attribute of the object it is given as it was
\* before the call.
C13_KeyIsPure ==
    \A p \in Clients : qkey[p] # "" => qobj[p] = qgiven[p]

\* C14: two queries alike but for time_range, None in one and "" in the
\* other, have the same key.
C14_NoneIsEmpty ==
    \A p1, p2 \in Clients :
        (/\ qkey[p1] # ""
         /\ qkey[p2] # ""
         /\ qgiven[p1].time_range = None
         /\ qgiven[p2] = [qgiven[p1] EXCEPT !.time_range = ""])
            => qkey[p1] = qkey[p2]

\* make_key has returned for a query with time_range None and for its like
\* with time_range "".
C14_Witness ==
    /\ qkey[1] # ""
    /\ qkey[2] # ""
    /\ qgiven[1].time_range = None
    /\ qgiven[2] = [qgiven[1] EXCEPT !.time_range = ""]
    /\ qkey[1] = qkey[2]

\* C21: get_twenty_queries on an index of which one member holds bytes that
\* do not unpickle (and every other member a value) raises nothing: it hands
\* back the queries of the other members.
C21_CorruptRowSkipped ==
    ret.op = "get_twenty_queries" => ret.back.kind # "raise"

====
